---- MODULE Spec2Model ----
(***************************************************************************)
(* Model of mltsp/custom_feature_tools.py: the invocation guard            *)
(* (myFeature), the in-process scheduler (call_custom_functions, entered   *)
(* directly or through execute_functions_in_order) and the isolated run    *)
(* (docker_extract_features).                                              *)
(*                                                                         *)
(* Four specifications share the module; each one drives its own           *)
(* variables and leaves the others at their idle value:                    *)
(*   Spec       - one scheduling run over a declaration table              *)
(*   SpecLive   - Spec with weak fairness of the run's steps               *)
(*   SpecGuard  - one call of a guarded unit (wrapped_f)                   *)
(*   SpecDocker - one run of docker_extract_features                       *)
(***************************************************************************)
EXTENDS Integers, Sequences, FiniteSets, TLC

(***************************************************************************)
(* Bounds of the model.                                                    *)
(***************************************************************************)
\* Round numbers i >= MaxRounds are identified (Python's int is unbounded;
\* a stalled run keeps incrementing i for ever).
MaxRounds == 4
\* Values returned by unit bodies are unit * ValBase + (sum of arguments % ValBase).
ValBase == 10

\* The units a script can declare, in the order list(fnames_req_prov_dict.keys())
\* yields them.  The declaration space below is closed under permuting the
\* units, so fixing this order loses no iteration order.
UnitSeq == <<"A", "B", "C">>
Units == {UnitSeq[k] : k \in 1..Len(UnitSeq)}
UnitNo(u) == CHOOSE k \in 1..Len(UnitSeq) : UnitSeq[k] = u

\* Feature names.
Names == {"t", "x", "y"}
\* The requires / provides lists a declaration of the model may carry.
RequiresChoices == {<<"t">>, <<"x">>, <<"y">>, <<"x", "y">>}
ProvidesChoices == {<<>>, <<"x">>, <<"y">>, <<"x", "y">>}
\* The caller's known values.
KnownChoices == {[n \in {"t"} |-> 1], [n \in {"t", "x"} |-> IF n = "t" THEN 1 ELSE 5]}

(***************************************************************************)
(* Helpers on lists and dicts.                                             *)
(***************************************************************************)
Range(s) == {s[k] : k \in 1..Len(s)}

\* (variant: the filter keeps every entry)
Without_KeepsAll(S, drop) == S

\* [x for x in lst if x not in drop] on a list kept as a set of names
Without(S, drop) == S \ drop

\* (variant: on a key of both, a's entry is kept)
MergeFirstWins(a, b) ==
    [n \in DOMAIN a \cup DOMAIN b |-> IF n \in DOMAIN a THEN a[n] ELSE b[n]]

\* dict(list(a.items()) + list(b.items())): on a key of both, b's entry wins
Merge(a, b) ==
    [n \in DOMAIN a \cup DOMAIN b |-> IF n \in DOMAIN b THEN b[n] ELSE a[n]]

\* (variant: the list is left as it is)
Remove_KeepsUnit(s, x) == s

\* list.remove(x) of a list without duplicates
RECURSIVE Remove(_, _)
Remove(s, x) ==
    IF s = <<>> THEN <<>>
    ELSE IF Head(s) = x THEN Tail(s)
    ELSE <<Head(s)>> \o Remove(Tail(s), x)

RECURSIVE SumVals(_, _)
SumVals(f, S) ==
    IF S = {} THEN 0
    ELSE LET n == CHOOSE m \in S : TRUE IN f[n] + SumVals(f, S \ {n})

EmptyDict == [n \in {} |-> 0]
NoErr == [kind |-> "none", value |-> ""]

(***************************************************************************)
(* myFeature: the invocation guard.                                        *)
(***************************************************************************)
\* What a unit body does when it is called: it raises, or returns a dict.
BodyRaises == [raises |-> TRUE, result |-> EmptyDict]
BodyReturns(d) == [raises |-> FALSE, result |-> d]

\* Index of the first entry of lst that is not in present, 0 when there is none
\* (the for loops of wrapped_f raise at the first offending entry).
FirstMissing(lst, present) ==
    LET miss == {k \in 1..Len(lst) : lst[k] \notin present}
    IN IF miss = {} THEN 0 ELSE CHOOSE k \in miss : \A j \in miss : k <= j

\* "required_arg not in args and required_arg not in kwargs": a required name
\* counts as supplied when it is a keyword of the call or EQUAL TO THE VALUE
\* of a positional argument.
SuppliedToGuard(args, kwargs) == Range(args) \cup DOMAIN kwargs

\* (variant: the returned mapping is not checked against provides)
wrapped_f_NoReturnCheck(requires, provides, args, kwargs, body) ==
    IF FirstMissing(requires, SuppliedToGuard(args, kwargs)) # 0
    THEN [kind |-> "MissingRequiredParameterError",
          value |-> requires[FirstMissing(requires,
                                          SuppliedToGuard(args, kwargs))],
          called |-> FALSE, result |-> EmptyDict]
    ELSE IF body.raises
    THEN [kind |-> "UnitError", value |-> "",
          called |-> TRUE, result |-> EmptyDict]
    ELSE [kind |-> "return", value |-> "",
          called |-> TRUE, result |-> body.result]

\* wrapped_f called with args and kwargs, for a unit decorated with
\* @myFeature(requires, provides) whose body f behaves as `body`.
\*   called : f was invoked
\*   kind   : "return", or the class of the exception that leaves wrapped_f
wrapped_f(requires, provides, args, kwargs, body) ==
    LET r == FirstMissing(requires, SuppliedToGuard(args, kwargs))
        p == FirstMissing(provides, DOMAIN body.result)
    IN IF r # 0
       THEN [kind |-> "MissingRequiredParameterError", value |-> requires[r],
             called |-> FALSE, result |-> EmptyDict]
       ELSE IF body.raises
       THEN [kind |-> "UnitError", value |-> "",
             called |-> TRUE, result |-> EmptyDict]
       ELSE IF p # 0
       THEN [kind |-> "MissingRequiredReturnKeyError", value |-> provides[p],
             called |-> TRUE, result |-> EmptyDict]
       ELSE [kind |-> "return", value |-> "",
             called |-> TRUE, result |-> body.result]

(***************************************************************************)
(* parse_for_req_prov_params: the derived lists of a declaration table.    *)
(***************************************************************************)
AllRequired(dict) == UNION {Range(dict[u].requires) : u \in DOMAIN dict}
AllProvided(dict) == UNION {Range(dict[u].provides) : u \in DOMAIN dict}

(***************************************************************************)
(* The unit bodies of a script.  A body is deterministic in its value      *)
(* (a function of the unit and of the arguments it receives); which keys   *)
(* it returns, or whether it raises, is the script author's doing and is   *)
(* chosen when the unit is called (a unit is called at most once a run).   *)
(* The bodies of the model return declared keys only: any subset of the    *)
(* unit's provides.                                                        *)
(***************************************************************************)
BodyValue(u, args_dict) ==
    UnitNo(u) * ValBase + (SumVals(args_dict, DOMAIN args_dict) % ValBase)

BodyBehaviours(u, provides, args_dict) ==
    {BodyRaises} \cup
    {BodyReturns([n \in K |-> BodyValue(u, args_dict)]) :
        K \in SUBSET Range(provides)}

(***************************************************************************)
(* State of one scheduling run.                                            *)
(***************************************************************************)
VARIABLES
    fnames_req_prov_dict,     \* the declaration table of the script
    features_already_known,   \* the caller's known values
    entry,                    \* how the run was entered
    pc,                       \* "init", "while", "for", "done", "error"
    all_required_params_copy, \* required names not yet known or provided
    funcnames,                \* units still to execute, in list order
    idx,                      \* position of the list iterator of the for loop
    i,                        \* round counter
    func_rounds,              \* func_rounds[i + 1]: units started in round i
    arguments,                \* keyword arguments of the latest unit call
    result_dict,              \* what the body of the latest called unit returned
    all_extracted_features,   \* accumulated outputs of the executed units
    err,                      \* the exception that ended the run
    stdout,                   \* sys.stdout: "orig" or "dummy"
    round_start_copy,         \* all_required_params_copy when the round began
    observed,                 \* what each unit did on the arguments it got
    run_no,                   \* 1: first run of the script, 2: second run
    first_run                 \* entry point and result of the first run

schedVars == <<fnames_req_prov_dict, features_already_known, entry, pc,
               all_required_params_copy, funcnames, idx, i, func_rounds,
               arguments, result_dict, all_extracted_features, err, stdout,
               round_start_copy, observed, run_no, first_run>>

\* State of one call of a guarded unit.
VARIABLES
    g_pc,        \* "idle", "call", "returned", "raised"
    g_requires,  \* self.requires of the decorator
    g_provides,  \* self.provides of the decorator
    g_params,    \* the parameter list of the decorated function f
    g_args,      \* the positional arguments of the call
    g_kwargs,    \* the keyword arguments of the call
    g_body,      \* what f does when it is called
    g_out        \* how wrapped_f ended

guardVars == <<g_pc, g_requires, g_provides, g_params, g_args, g_kwargs,
               g_body, g_out>>

\* State of the isolated runs of one host.
VARIABLES
    d_pc,             \* per run: where docker_extract_features stands
    path_to_tmp_dir,  \* per run: name of its staging directory, or NoDir
    client,           \* per run: the local `client` is bound
    cont_id,          \* per run: the local `cont_id` is bound
    pending,          \* per run: the exception in flight ("none": no exception)
    failure,          \* per run: the exception the try block raised, if any
    results_dict,     \* per run: the result was loaded
    tmp_dirs,         \* host: [name -> run that created the directory, 0: absent]
    containers,       \* host: runs whose container instance exists
    tmp_custom_feats  \* host: files present in cfg.TMP_CUSTOM_FEATS_FOLDER

dockerVars == <<d_pc, path_to_tmp_dir, client, cont_id, pending, failure,
                results_dict, tmp_dirs, containers, tmp_custom_feats>>

\* generate_custom_features and verify_new_script, called one after another
\* in one interpreter
VARIABLES
    gen_pc,           \* "idle", "host": the interpreter takes calls
    calls,            \* number of calls made so far
    default_known,    \* the dict object bound to features_already_known={}
    last_call,        \* the latest call: function, arguments, environment
    used,             \* the known values the latest call handed to execution
    outcome           \* how the latest call ended

genVars == <<gen_pc, calls, default_known, last_call, used, outcome>>

\* parse_for_req_prov_params reading one script
VARIABLES
    p_pc,                     \* "idle", "loop", "returned"
    all_lines,                \* the lines of the script
    p_i,                      \* loop variable i (0-based, as in the code)
    p_fnames_req_prov_dict,   \* the table built so far
    p_all_required_params,    \* required names collected so far
    p_all_provided_params     \* provided names collected so far

parseVars == <<p_pc, all_lines, p_i, p_fnames_req_prov_dict,
               p_all_required_params, p_all_provided_params>>

\* the import of the unit bodies at the head of call_custom_functions
VARIABLES
    im_pc,                    \* "idle", "import", "invoke", "remove", "done"
    script_fpath,             \* the argument: a script, or None
    pkg_custom_feature_defs,  \* custom_feature_scripts/custom_feature_defs.py
    path_custom_feature_defs, \* a custom_feature_defs module on sys.path
    custom_feature_defs,      \* the local name: the module it is bound to
    copied_path,              \* the local name: the copy staged by this call
    staged,                   \* the copies lying in custom_feature_scripts
    invoked_from              \* the script whose unit bodies were called

importVars == <<im_pc, script_fpath, pkg_custom_feature_defs,
                path_custom_feature_defs, custom_feature_defs, copied_path,
                staged, invoked_from>>

\* what the actions of one part leave alone
notSched == <<guardVars, dockerVars, genVars, parseVars, importVars>>
notGuard == <<schedVars, dockerVars, genVars, parseVars, importVars>>
notDocker == <<schedVars, guardVars, genVars, parseVars, importVars>>
notGen == <<schedVars, guardVars, dockerVars, parseVars, importVars>>
notParse == <<schedVars, guardVars, dockerVars, genVars, importVars>>
notImport == <<schedVars, guardVars, dockerVars, genVars, parseVars>>

NoResult == [returned |-> FALSE, dict |-> EmptyDict]

DeclChoices == [requires : RequiresChoices, provides : ProvidesChoices]

NoRun == [entry |-> "none", result |-> EmptyDict]

SchedInit ==
    /\ \E n \in 1..Len(UnitSeq) :
           fnames_req_prov_dict \in [{UnitSeq[k] : k \in 1..n} -> DeclChoices]
    /\ features_already_known \in KnownChoices
    /\ entry = "none"
    /\ pc = "init"
    /\ all_required_params_copy = {}
    /\ funcnames = <<>>
    /\ idx = 0
    /\ i = 0
    /\ func_rounds = <<>>
    /\ arguments = EmptyDict
    /\ result_dict = NoResult
    /\ all_extracted_features = EmptyDict
    /\ err = NoErr
    /\ stdout = "orig"
    /\ round_start_copy = {}
    /\ observed = {}
    /\ run_no = 1
    /\ first_run = NoRun

SchedIdle ==
    /\ fnames_req_prov_dict = [u \in {} |-> 0]
    /\ features_already_known = EmptyDict
    /\ entry = "none"
    /\ pc = "idle"
    /\ all_required_params_copy = {}
    /\ funcnames = <<>>
    /\ idx = 0
    /\ i = 0
    /\ func_rounds = <<>>
    /\ arguments = EmptyDict
    /\ result_dict = NoResult
    /\ all_extracted_features = EmptyDict
    /\ err = NoErr
    /\ stdout = "orig"
    /\ round_start_copy = {}
    /\ observed = {}
    /\ run_no = 1
    /\ first_run = NoRun

\* (variant: the keys come in another order in the second run, as with a
\* hash-ordered dict)
KeyList_OrderPerRun(dict) ==
    LET seq == SelectSeq(UnitSeq, LAMBDA u : u \in DOMAIN dict)
    IN  IF run_no = 2
        THEN [k \in 1..Len(seq) |-> seq[Len(seq) + 1 - k]]
        ELSE seq

\* list(fnames_req_prov_dict.keys())
KeyList(dict) == SelectSeq(UnitSeq, LAMBDA u : u \in DOMAIN dict)

\* The all_provided_params argument call_custom_functions receives:
\* execute_functions_in_order passes all_required_params in its place.
ProvidedArgument(e, dict) ==
    IF e = "execute_functions_in_order" THEN AllRequired(dict)
    ELSE AllProvided(dict)

\* (variant: the membership test of the validation loop is inverted)
Rejected_Inverted(copy, all_provided_params) ==
    {r \in copy : r \in all_provided_params}

\* Required names the validation loop of call_custom_functions rejects.
Rejected(copy, all_provided_params) ==
    {r \in copy : r \notin all_provided_params}

\* call_custom_functions up to the while loop: stdout is redirected, the
\* required names are validated, the locals are initialised.  The run is
\* entered directly (with the lists parse_for_req_prov_params returned) or
\* through execute_functions_in_order.
Call ==
    /\ pc = "init"
    /\ \E e \in {"call_custom_functions", "execute_functions_in_order"} :
        LET copy == Without(AllRequired(fnames_req_prov_dict),
                            DOMAIN features_already_known)
            bad == Rejected(copy, ProvidedArgument(e, fnames_req_prov_dict))
        IN /\ entry' = e
           /\ stdout' = "dummy"
           /\ all_required_params_copy' = copy
           /\ IF bad # {}
              THEN /\ pc' = "error"
                   /\ \E r \in bad :
                        err' = [kind |-> "Exception", value |-> r]
                   /\ UNCHANGED <<funcnames, i>>
              ELSE /\ pc' = "while"
                   /\ err' = NoErr
                   /\ funcnames' = KeyList(fnames_req_prov_dict)
                   /\ i' = 0
    /\ UNCHANGED <<fnames_req_prov_dict, features_already_known, idx,
                   func_rounds, arguments, result_dict,
                   all_extracted_features>>
    /\ UNCHANGED <<round_start_copy, observed, run_no, first_run>>
    /\ UNCHANGED notSched

\* while len(funcnames) > 0: func_rounds[str(i)] = []; the for loop starts
RoundStart ==
    /\ pc = "while"
    /\ Len(funcnames) > 0
    /\ func_rounds' = [k \in 1..(i + 1) |->
                          IF k = i + 1 THEN <<>> ELSE func_rounds[k]]
    /\ idx' = 1
    /\ pc' = "for"
    /\ UNCHANGED <<fnames_req_prov_dict, features_already_known, entry,
                   all_required_params_copy, funcnames, i, arguments,
                   result_dict, all_extracted_features, err, stdout>>
    /\ round_start_copy' = all_required_params_copy
    /\ UNCHANGED <<observed, run_no, first_run>>
    /\ UNCHANGED notSched

\* (variant: a unit waits only while all of its requirements are outstanding)
Blocked_AllOutstanding(copy, reqs) == Range(reqs) \subseteq copy

\* if len(set(all_required_params_copy) & set(reqs)) > 0
Blocked(copy, reqs) == copy \cap Range(reqs) # {}

\* for funcname in funcnames, a unit with a requirement still outstanding:
\* func_queue.append(funcname) (func_queue is never read) and on to the next
Queue ==
    /\ pc = "for"
    /\ idx <= Len(funcnames)
    /\ Blocked(all_required_params_copy,
               fnames_req_prov_dict[funcnames[idx]].requires)
    /\ idx' = idx + 1
    /\ UNCHANGED <<fnames_req_prov_dict, features_already_known, entry, pc,
                   all_required_params_copy, funcnames, i, func_rounds,
                   arguments, result_dict, all_extracted_features, err,
                   stdout>>
    /\ UNCHANGED <<round_start_copy, observed, run_no, first_run>>
    /\ UNCHANGED notSched

\* (variant: the extracted value is looked up before the caller's)
ArgumentsFor_ExtractedFirst(reqs, known, extracted) ==
    [n \in {r \in Range(reqs) : r \in DOMAIN known \cup DOMAIN extracted} |->
        IF n \in DOMAIN extracted THEN extracted[n] ELSE known[n]]

\* the arguments dict built for a unit: the caller's value when the name is
\* caller-known, else the extracted one, else the name is left out
ArgumentsFor(reqs, known, extracted) ==
    [n \in {r \in Range(reqs) : r \in DOMAIN known \cup DOMAIN extracted} |->
        IF n \in DOMAIN known THEN known[n] ELSE extracted[n]]

\* position of the list iterator after the body of the for loop ran on the
\* entry at idx: the iterator only counts, so after funcnames.remove() it
\* lands one entry further in the shortened list
NextIdx(k) == k + 1

\* for funcname in funcnames, a unit with no requirement outstanding: it is
\* recorded in the round, its provides leave all_required_params_copy, it is
\* called through the guard, its result is merged and it leaves funcnames.
\* An exception of the call leaves call_custom_functions at once.
\* (variant: the exception is caught in the loop, which goes on with the
\* next unit)
Raise_LoopGoesOn(kind, value) ==
    /\ err' = [kind |-> kind, value |-> value]
    /\ idx' = idx + 1
    /\ UNCHANGED <<pc, all_extracted_features, funcnames>>

\* the call of line 204 raises: nothing in call_custom_functions catches
\* it, the exception leaves the loops and the function
Raise(kind, value) ==
    /\ pc' = "error"
    /\ err' = [kind |-> kind, value |-> value]
    /\ UNCHANGED <<all_extracted_features, funcnames, idx>>

\* a unit is a function of its arguments: called again on arguments it has
\* seen, it does what it did then
Behaviours(u, provides, args_dict) ==
    IF \E o \in observed : o.unit = u /\ o.args = args_dict
    THEN {o.body : o \in {x \in observed :
                             x.unit = u /\ x.args = args_dict}}
    ELSE BodyBehaviours(u, provides, args_dict)

Execute ==
    /\ pc = "for"
    /\ idx <= Len(funcnames)
    /\ LET funcname == funcnames[idx]
           reqs == fnames_req_prov_dict[funcname].requires
           provs == fnames_req_prov_dict[funcname].provides
           args_dict == ArgumentsFor(reqs, features_already_known,
                                     all_extracted_features)
       IN /\ ~Blocked(all_required_params_copy, reqs)
          /\ func_rounds' = [func_rounds EXCEPT
                                ![i + 1] = Append(@, funcname)]
          /\ all_required_params_copy' =
                 Without(all_required_params_copy, Range(provs))
          /\ arguments' = args_dict
          /\ \E body \in Behaviours(funcname, provs, args_dict) :
               LET out == wrapped_f(reqs, provs, <<>>, args_dict, body)
               IN /\ observed' = observed \cup
                       {[unit |-> funcname, args |-> args_dict,
                         body |-> body]}
                  /\ result_dict' =
                       IF out.called /\ ~body.raises
                       THEN [returned |-> TRUE, dict |-> body.result]
                       ELSE NoResult
                  /\ IF out.kind = "return"
                     THEN /\ all_extracted_features' =
                                 Merge(all_extracted_features, out.result)
                          /\ funcnames' = Remove(funcnames, funcname)
                          /\ idx' = NextIdx(idx)
                          /\ UNCHANGED <<pc, err>>
                     ELSE Raise(out.kind, out.value)
    /\ UNCHANGED <<fnames_req_prov_dict, features_already_known, entry, i,
                   stdout>>
    /\ UNCHANGED <<round_start_copy, run_no, first_run>>
    /\ UNCHANGED notSched

\* the for loop is exhausted: i += 1
RoundEnd ==
    /\ pc = "for"
    /\ idx > Len(funcnames)
    /\ i' = IF i < MaxRounds THEN i + 1 ELSE i
    /\ pc' = "while"
    /\ UNCHANGED <<fnames_req_prov_dict, features_already_known, entry,
                   all_required_params_copy, funcnames, idx, func_rounds,
                   arguments, result_dict, all_extracted_features, err,
                   stdout>>
    /\ UNCHANGED <<round_start_copy, observed, run_no, first_run>>
    /\ UNCHANGED notSched

\* the while loop is left: stdout is restored, all_extracted_features returned
Return ==
    /\ pc = "while"
    /\ Len(funcnames) = 0
    /\ stdout' = "orig"
    /\ pc' = "done"
    /\ UNCHANGED <<fnames_req_prov_dict, features_already_known, entry,
                   all_required_params_copy, funcnames, idx, i, func_rounds,
                   arguments, result_dict, all_extracted_features, err>>
    /\ UNCHANGED <<round_start_copy, observed, run_no, first_run>>
    /\ UNCHANGED notSched

SchedNext == Call \/ RoundStart \/ Queue \/ Execute \/ RoundEnd \/ Return

\* the caller runs the same script once more on the same known values
RunAgain ==
    /\ pc = "done"
    /\ run_no = 1
    /\ run_no' = 2
    /\ first_run' = [entry |-> entry, result |-> all_extracted_features]
    /\ pc' = "init"
    /\ entry' = "none"
    /\ all_required_params_copy' = {}
    /\ funcnames' = <<>>
    /\ idx' = 0
    /\ i' = 0
    /\ func_rounds' = <<>>
    /\ arguments' = EmptyDict
    /\ result_dict' = NoResult
    /\ all_extracted_features' = EmptyDict
    /\ err' = NoErr
    /\ round_start_copy' = {}
    /\ UNCHANGED <<fnames_req_prov_dict, features_already_known, stdout,
                   observed>>
    /\ UNCHANGED notSched

TwiceNext == SchedNext \/ RunAgain

(***************************************************************************)
(* One call of a guarded unit, made with positional and keyword arguments. *)
(***************************************************************************)

\* Values a caller may pass: a data value, or a string that happens to be
\* spelled like a parameter name.
ArgValues == {"v", "t", "m"}
GuardParamLists == {<<"t", "m">>, <<"m", "t">>}
GuardRequiresChoices == {<<"t">>, <<"m">>, <<"t", "m">>}
GuardProvidesChoices == {<<"z">>, <<"y", "z">>}
NoOutcome == [kind |-> "none", value |-> "", called |-> FALSE,
              result |-> EmptyDict]

\* the parameters of f that the call binds: by position, or by keyword
BoundParams(params, args, kwargs) ==
    {params[k] : k \in 1..Len(args)} \cup DOMAIN kwargs

\* calls Python can bind to f (every parameter of f has a default): no more
\* positional arguments than parameters, no parameter bound twice
GuardInit ==
    /\ g_pc = "call"
    /\ g_requires \in GuardRequiresChoices
    /\ g_provides \in GuardProvidesChoices
    /\ g_params \in GuardParamLists
    /\ \E n \in 0..Len(g_params) : g_args \in [1..n -> ArgValues]
    /\ \E K \in SUBSET Range(g_params) : g_kwargs \in [K -> {"v"}]
    /\ DOMAIN g_kwargs \cap {g_params[k] : k \in 1..Len(g_args)} = {}
    /\ g_body \in {BodyRaises} \cup
                  {BodyReturns([n \in K |-> "v"]) : K \in SUBSET {"y", "z"}}
    /\ g_out = NoOutcome

GuardIdle ==
    /\ g_pc = "idle"
    /\ g_requires = <<>>
    /\ g_provides = <<>>
    /\ g_params = <<>>
    /\ g_args = <<>>
    /\ g_kwargs = EmptyDict
    /\ g_body = BodyRaises
    /\ g_out = NoOutcome

GuardedCall ==
    /\ g_pc = "call"
    /\ g_out' = wrapped_f(g_requires, g_provides, g_args, g_kwargs, g_body)
    /\ g_pc' = IF g_out'.kind = "return" THEN "returned" ELSE "raised"
    /\ UNCHANGED <<g_requires, g_provides, g_params, g_args, g_kwargs,
                   g_body>>
    /\ UNCHANGED notGuard

GuardNext == GuardedCall

(***************************************************************************)
(* docker_extract_features: isolated runs on one host.                     *)
(***************************************************************************)
NumRuns == 2
Runs == 1..NumRuns
\* str(uuid.uuid4())[:10]: the names make_tmp_dir can draw
DirNames == 1..(NumRuns + 1)
NoDir == 0
\* the files of cfg.TMP_CUSTOM_FEATS_FOLDER that remove_tmp_files deletes
SharedFiles == {"custom_feature_defs.py", "custom_feature_defs.pyc",
                "__init__.pyc"}


DockerInit ==
    /\ d_pc = [r \in Runs |-> "start"]
    /\ path_to_tmp_dir = [r \in Runs |-> NoDir]
    /\ client = [r \in Runs |-> FALSE]
    /\ cont_id = [r \in Runs |-> FALSE]
    /\ pending = [r \in Runs |-> "none"]
    /\ failure = [r \in Runs |-> "none"]
    /\ results_dict = [r \in Runs |-> FALSE]
    /\ tmp_dirs = [n \in DirNames |-> 0]
    /\ containers = {}
    /\ tmp_custom_feats \in {{}, SharedFiles}

DockerIdle ==
    /\ d_pc = [r \in Runs |-> "idle"]
    /\ path_to_tmp_dir = [r \in Runs |-> NoDir]
    /\ client = [r \in Runs |-> FALSE]
    /\ cont_id = [r \in Runs |-> FALSE]
    /\ pending = [r \in Runs |-> "none"]
    /\ failure = [r \in Runs |-> "none"]
    /\ results_dict = [r \in Runs |-> FALSE]
    /\ tmp_dirs = [n \in DirNames |-> 0]
    /\ containers = {}
    /\ tmp_custom_feats = {}

\* make_tmp_dir: os.makedirs of a freshly drawn name; it raises when the
\* directory exists or cannot be created, and nothing is created then
MakeTmpDir(r) ==
    /\ d_pc[r] = "start"
    /\ \E n \in DirNames :
         \/ /\ tmp_dirs[n] = 0
            /\ tmp_dirs' = [tmp_dirs EXCEPT ![n] = r]
            /\ path_to_tmp_dir' = [path_to_tmp_dir EXCEPT ![r] = n]
            /\ d_pc' = [d_pc EXCEPT ![r] = "copy_data"]
            /\ UNCHANGED pending
         \/ /\ d_pc' = [d_pc EXCEPT ![r] = "raised"]
            /\ pending' = [pending EXCEPT ![r] = "OSError"]
            /\ UNCHANGED <<tmp_dirs, path_to_tmp_dir>>
    /\ UNCHANGED <<client, cont_id, failure, results_dict, containers,
                   tmp_custom_feats>>
    /\ UNCHANGED notDocker

\* copy_data_to_tmp_dir, called before the try block: shutil.copy of the
\* script and pickle.dump of the known values may raise, and the exception
\* leaves docker_extract_features at once
CopyData(r) ==
    /\ d_pc[r] = "copy_data"
    /\ \/ /\ d_pc' = [d_pc EXCEPT ![r] = "get_client"]
          /\ UNCHANGED pending
       \/ /\ d_pc' = [d_pc EXCEPT ![r] = "raised"]
          /\ pending' = [pending EXCEPT ![r] = "IOError"]
    /\ UNCHANGED <<path_to_tmp_dir, client, cont_id, failure, results_dict,
                   tmp_dirs, containers, tmp_custom_feats>>
    /\ UNCHANGED notDocker

\* (variant: "except: pass", the exception is dropped)
Reraise_Swallows(e) == "none"

\* "except: raise": the exception of the try block stays in flight
Reraise(e) == e

\* extract_feats_in_docker_container: client = get_docker_client()
GetDockerClient(r) ==
    /\ d_pc[r] = "get_client"
    /\ \/ /\ client' = [client EXCEPT ![r] = TRUE]
          /\ d_pc' = [d_pc EXCEPT ![r] = "create_container"]
          /\ UNCHANGED <<pending, failure>>
       \/ /\ pending' = [pending EXCEPT ![r] = Reraise("DockerError")]
          /\ failure' = [failure EXCEPT ![r] = "DockerError"]
          /\ d_pc' = [d_pc EXCEPT ![r] = "remove_container"]
          /\ UNCHANGED client
    /\ UNCHANGED <<path_to_tmp_dir, cont_id, results_dict, tmp_dirs,
                   containers, tmp_custom_feats>>
    /\ UNCHANGED notDocker

\* cont_id = client.create_container(...)["Id"]
CreateContainer(r) ==
    /\ d_pc[r] = "create_container"
    /\ \/ /\ cont_id' = [cont_id EXCEPT ![r] = TRUE]
          /\ containers' = containers \cup {r}
          /\ d_pc' = [d_pc EXCEPT ![r] = "run"]
          /\ UNCHANGED <<pending, failure>>
       \/ /\ pending' = [pending EXCEPT ![r] = Reraise("DockerError")]
          /\ failure' = [failure EXCEPT ![r] = "DockerError"]
          /\ d_pc' = [d_pc EXCEPT ![r] = "remove_container"]
          /\ UNCHANGED <<cont_id, containers>>
    /\ UNCHANGED <<path_to_tmp_dir, client, results_dict, tmp_dirs,
                   tmp_custom_feats>>
    /\ UNCHANGED notDocker

\* client.start, client.wait, client.logs
RunContainer(r) ==
    /\ d_pc[r] = "run"
    /\ \/ /\ d_pc' = [d_pc EXCEPT ![r] = "collect"]
          /\ UNCHANGED <<pending, failure>>
       \/ /\ pending' = [pending EXCEPT ![r] = Reraise("DockerError")]
          /\ failure' = [failure EXCEPT ![r] = "DockerError"]
          /\ d_pc' = [d_pc EXCEPT ![r] = "remove_container"]
    /\ UNCHANGED <<path_to_tmp_dir, client, cont_id, results_dict, tmp_dirs,
                   containers, tmp_custom_feats>>
    /\ UNCHANGED notDocker

\* docker_copy of /tmp/results_dict.pkl and pickle.load: the file may be
\* absent (the script failed in the container) or corrupt
Collect(r) ==
    /\ d_pc[r] = "collect"
    /\ \/ /\ results_dict' = [results_dict EXCEPT ![r] = TRUE]
          /\ UNCHANGED <<pending, failure>>
       \/ /\ pending' = [pending EXCEPT ![r] = Reraise("ResultError")]
          /\ failure' = [failure EXCEPT ![r] = "ResultError"]
          /\ UNCHANGED results_dict
    /\ d_pc' = [d_pc EXCEPT ![r] = "remove_container"]
    /\ UNCHANGED <<path_to_tmp_dir, client, cont_id, tmp_dirs, containers,
                   tmp_custom_feats>>
    /\ UNCHANGED notDocker

\* finally: client.remove_container(container=cont_id, force=True).  With
\* client or cont_id unbound the UnboundLocalError is caught; an error of
\* remove_container itself is not, and takes the place of what was in flight
RemoveContainer(r) ==
    /\ d_pc[r] = "remove_container"
    /\ IF client[r] /\ cont_id[r]
       THEN \/ /\ containers' = containers \ {r}
               /\ UNCHANGED <<pending, results_dict>>
            \/ /\ pending' = [pending EXCEPT ![r] = "CleanupError"]
               /\ results_dict' = [results_dict EXCEPT ![r] = FALSE]
               /\ UNCHANGED containers
       ELSE UNCHANGED <<containers, pending, results_dict>>
    /\ d_pc' = [d_pc EXCEPT ![r] = "remove_tmp_files"]
    /\ UNCHANGED <<path_to_tmp_dir, client, cont_id, failure, tmp_dirs,
                   tmp_custom_feats>>
    /\ UNCHANGED notDocker

\* finally: remove_tmp_files(path_to_tmp_dir): shutil.rmtree of the staging
\* directory, os.remove of the three files of cfg.TMP_CUSTOM_FEATS_FOLDER;
\* then the result is returned or the exception in flight goes on
RemoveTmpFiles(r) ==
    /\ d_pc[r] = "remove_tmp_files"
    /\ tmp_dirs' = [tmp_dirs EXCEPT ![path_to_tmp_dir[r]] = 0]
    /\ tmp_custom_feats' = tmp_custom_feats \ SharedFiles
    /\ d_pc' = [d_pc EXCEPT ![r] =
                   IF pending[r] = "none" THEN "returned" ELSE "raised"]
    /\ UNCHANGED <<path_to_tmp_dir, client, cont_id, pending, failure,
                   results_dict, containers>>
    /\ UNCHANGED notDocker

DockerNext ==
    \E r \in Runs :
        \/ MakeTmpDir(r)
        \/ CopyData(r)
        \/ GetDockerClient(r)
        \/ CreateContainer(r)
        \/ RunContainer(r)
        \/ Collect(r)
        \/ RemoveContainer(r)
        \/ RemoveTmpFiles(r)

(***************************************************************************)
(* generate_custom_features and verify_new_script.                         *)
(***************************************************************************)
MaxCalls == 2

\* time-series columns: a python list or a numpy array of the same data
ArrayLike ==
    {[kind |-> "list", data |-> <<1>>], [kind |-> "ndarray", data |-> <<1, 2>>]}
None == [kind |-> "None", data |-> <<>>]

\* np.array(v): a numpy array holding the data of v
NpArray(v) == [kind |-> "ndarray", data |-> v.data]

\* the dicts a caller passes as features_already_known
ExplicitKnown ==
    {EmptyDict, [k \in {"t"} |-> [kind |-> "list", data |-> <<2>>]]}

\* assemble_test_data(): the columns of the sample data file, a fresh dict
assemble_test_data ==
    [k \in {"t", "m", "e"} |-> [kind |-> "ndarray", data |-> <<1, 2>>]]

\* lines 565-573: fill t, m, e into the dict where absent, then convert
FillKnown(known, t, m, e) ==
    LET withT == IF "t" \in DOMAIN known THEN known
                 ELSE Merge(known, [k \in {"t"} |-> t])
        withM == IF "m" \in DOMAIN withT THEN withT
                 ELSE Merge(withT, [k \in {"m"} |-> m])
        withE == IF /\ e # None
                    /\ Len(e.data) = Len(m.data)
                    /\ "e" \notin DOMAIN withM
                 THEN Merge(withM, [k \in {"e"} |-> e])
                 ELSE withM
    IN  [k \in DOMAIN withE |->
            IF k \in {"t", "m", "e"} THEN NpArray(withE[k]) ELSE withE[k]]

\* os.getenv("MLTSP_NO_DOCKER") == "1"
NoDocker(getenv) == getenv = "1"

\* the if / elif / elif chain; docker_images_available() is asked once in
\* the first test and once more in the last one
Policy(first_avail, no_docker, second_avail, fell_through) ==
    IF first_avail /\ ~no_docker THEN "isolated"
    ELSE IF no_docker THEN "in_process"
    ELSE IF ~second_avail THEN "rejected"
    ELSE fell_through

EnvReads ==
    [getenv : {"unset", "0", "1"}, in_docker : BOOLEAN,
     first_avail : BOOLEAN, second_avail : BOOLEAN]

NoCall == [fn |-> "none"]

GenInit ==
    /\ gen_pc = "host"
    /\ calls = 0
    /\ default_known = EmptyDict
    /\ last_call = NoCall
    /\ used = EmptyDict
    /\ outcome = "none"

GenIdle ==
    /\ gen_pc = "idle"
    /\ calls = 0
    /\ default_known = EmptyDict
    /\ last_call = NoCall
    /\ used = EmptyDict
    /\ outcome = "none"

\* generate_custom_features(custom_script_path, t, m, e[, known])
GenerateCustomFeatures ==
    /\ gen_pc = "host"
    /\ calls < MaxCalls
    /\ \E t \in ArrayLike, m \in ArrayLike, e \in ArrayLike \cup {None},
          omitted \in BOOLEAN, explicit \in ExplicitKnown, env \in EnvReads :
          LET known == IF omitted THEN default_known ELSE explicit
              filled == FillKnown(known, t, m, e)
          IN  /\ last_call' = [fn |-> "generate_custom_features",
                               t |-> t, m |-> m, e |-> e,
                               omitted |-> omitted,
                               features_already_known |->
                                   IF omitted THEN EmptyDict ELSE explicit,
                               env |-> env]
              \* the dict is changed in place: the default object keeps it
              /\ default_known' = IF omitted THEN filled ELSE default_known
              /\ used' = filled
              /\ outcome' =
                    IF env.in_docker THEN "in_process"
                    ELSE Policy(env.first_avail, NoDocker(env.getenv),
                                env.second_avail, "UnboundLocalError")
    /\ calls' = calls + 1
    /\ UNCHANGED gen_pc
    /\ UNCHANGED notGen

\* verify_new_script(script_fpath)
VerifyNewScript ==
    /\ gen_pc = "host"
    /\ calls < MaxCalls
    /\ \E env \in EnvReads :
          /\ last_call' = [fn |-> "verify_new_script", env |-> env]
          /\ used' = assemble_test_data
          /\ outcome' = Policy(env.first_avail, NoDocker(env.getenv),
                               env.second_avail, "returned_empty")
    /\ calls' = calls + 1
    /\ UNCHANGED <<gen_pc, default_known>>
    /\ UNCHANGED notGen

GenNext == GenerateCustomFeatures \/ VerifyNewScript

(***************************************************************************)
(* parse_for_req_prov_params.                                              *)
(***************************************************************************)
MaxLines == 4

\* a script line: a decorator line, the first line of a function
\* definition, or anything else
DecoratorLines ==
    {[kind |-> "@myFeature", requires |-> <<"t">>, provides |-> <<"x">>],
     [kind |-> "@myFeature", requires |-> <<"x">>, provides |-> <<"y">>]}
DefLines == {[kind |-> "def ", funcname |-> u] : u \in {"A", "B"}}
OtherLines == {[kind |-> "other"]}
Lines == DecoratorLines \cup DefLines \cup OtherLines

Scripts == UNION {[1..n -> Lines] : n \in 1..MaxLines}

\* "@myFeature" in all_lines[i] and "def " in all_lines[i + 1], with the
\* 0-based i of the code
IsDeclaration(lines, k) ==
    /\ lines[k + 1].kind = "@myFeature"
    /\ lines[k + 2].kind = "def "

\* fnames_req_prov_dict[funcname] = {...}: a dict assignment
SetItem(dict, key, val) ==
    [k \in DOMAIN dict \cup {key} |-> IF k = key THEN val ELSE dict[k]]

ParseInit ==
    /\ p_pc = "loop"
    /\ all_lines \in Scripts
    /\ p_i = 0
    /\ p_fnames_req_prov_dict = EmptyDict
    /\ p_all_required_params = {}
    /\ p_all_provided_params = {}

ParseIdle ==
    /\ p_pc = "idle"
    /\ all_lines = <<>>
    /\ p_i = 0
    /\ p_fnames_req_prov_dict = EmptyDict
    /\ p_all_required_params = {}
    /\ p_all_provided_params = {}

\* one iteration of "for i in range(len(all_lines) - 1)"
ParseLine ==
    /\ p_pc = "loop"
    /\ p_i < Len(all_lines) - 1
    /\ IF IsDeclaration(all_lines, p_i)
       THEN LET deco == all_lines[p_i + 1]
                funcname == all_lines[p_i + 2].funcname
            IN  /\ p_fnames_req_prov_dict' =
                       SetItem(p_fnames_req_prov_dict, funcname,
                               [requires |-> deco.requires,
                                provides |-> deco.provides])
                /\ p_all_required_params' =
                       p_all_required_params \cup Range(deco.requires)
                /\ p_all_provided_params' =
                       p_all_provided_params \cup Range(deco.provides)
       ELSE UNCHANGED <<p_fnames_req_prov_dict, p_all_required_params,
                        p_all_provided_params>>
    /\ p_i' = p_i + 1
    /\ UNCHANGED <<p_pc, all_lines>>
    /\ UNCHANGED notParse

\* the loop is exhausted: the three values are returned
ParseReturn ==
    /\ p_pc = "loop"
    /\ p_i >= Len(all_lines) - 1
    /\ p_pc' = "returned"
    /\ UNCHANGED <<all_lines, p_i, p_fnames_req_prov_dict,
                   p_all_required_params, p_all_provided_params>>
    /\ UNCHANGED notParse

ParseNext == ParseLine \/ ParseReturn

(***************************************************************************)
(* The import chain of call_custom_functions.                              *)
(***************************************************************************)
\* the scripts there are: the contents a module file can have
ScriptFiles == {"script1", "script2", "script3"}
NoModule == "none"
Unbound == "unbound"

ImportInit ==
    /\ im_pc = "import"
    /\ script_fpath \in ScriptFiles \cup {"None"}
    /\ pkg_custom_feature_defs \in ScriptFiles \cup {NoModule}
    /\ path_custom_feature_defs \in ScriptFiles \cup {NoModule}
    /\ custom_feature_defs = Unbound
    /\ copied_path = Unbound
    /\ staged = {}
    /\ invoked_from = "none"

ImportIdle ==
    /\ im_pc = "idle"
    /\ script_fpath = "None"
    /\ pkg_custom_feature_defs = NoModule
    /\ path_custom_feature_defs = NoModule
    /\ custom_feature_defs = Unbound
    /\ copied_path = Unbound
    /\ staged = {}
    /\ invoked_from = "none"

\* try: from .custom_feature_scripts import custom_feature_defs
\* except ImportError: try: import custom_feature_defs
\* except ImportError: if script_fpath: copy the script under a fresh name
\* and import the copy
ImportCustomFeatureDefs ==
    /\ im_pc = "import"
    /\ IF pkg_custom_feature_defs # NoModule
       THEN /\ custom_feature_defs' = pkg_custom_feature_defs
            /\ UNCHANGED <<copied_path, staged>>
       ELSE IF path_custom_feature_defs # NoModule
       THEN /\ custom_feature_defs' = path_custom_feature_defs
            /\ UNCHANGED <<copied_path, staged>>
       ELSE IF script_fpath # "None"
       THEN /\ copied_path' = script_fpath
            /\ staged' = staged \cup {script_fpath}
            /\ custom_feature_defs' = script_fpath
       ELSE UNCHANGED <<custom_feature_defs, copied_path, staged>>
    /\ im_pc' = "invoke"
    /\ UNCHANGED <<script_fpath, pkg_custom_feature_defs,
                   path_custom_feature_defs, invoked_from>>
    /\ UNCHANGED notImport

\* getattr(custom_feature_defs, funcname)(**arguments): the bodies come from
\* the module the local name is bound to; with the name unbound the lookup
\* raises and the function is left
InvokeUnits ==
    /\ im_pc = "invoke"
    /\ IF custom_feature_defs = Unbound
       THEN /\ im_pc' = "done"
            /\ UNCHANGED invoked_from
       ELSE /\ invoked_from' = custom_feature_defs
            /\ \/ im_pc' = "remove"
               \/ im_pc' = "done"
    /\ UNCHANGED <<script_fpath, pkg_custom_feature_defs,
                   path_custom_feature_defs, custom_feature_defs,
                   copied_path, staged>>
    /\ UNCHANGED notImport

\* try: os.remove(copied_path) ... except: pass
RemoveCopied ==
    /\ im_pc = "remove"
    /\ staged' = IF copied_path = Unbound THEN staged
                 ELSE staged \ {copied_path}
    /\ im_pc' = "done"
    /\ UNCHANGED <<script_fpath, pkg_custom_feature_defs,
                   path_custom_feature_defs, custom_feature_defs,
                   copied_path, invoked_from>>
    /\ UNCHANGED notImport

ImportNext == ImportCustomFeatureDefs \/ InvokeUnits \/ RemoveCopied

(***************************************************************************)
(* Specifications.                                                         *)
(***************************************************************************)
vars == <<schedVars, guardVars, dockerVars, genVars, parseVars,
         importVars>>

Init == SchedInit /\ GuardIdle /\ DockerIdle /\ GenIdle /\ ParseIdle
        /\ ImportIdle
Next == SchedNext
Spec == Init /\ [][Next]_vars

\* call_custom_functions is sequential code: a run that can take a step
\* takes it
SpecLive == Init /\ [][Next]_vars /\ WF_vars(Next)

GuardSpecInit == SchedIdle /\ GuardInit /\ DockerIdle /\ GenIdle /\ ParseIdle
        /\ ImportIdle
SpecGuard == GuardSpecInit /\ [][GuardNext]_vars

DockerSpecInit == SchedIdle /\ GuardIdle /\ DockerInit /\ GenIdle /\ ParseIdle
        /\ ImportIdle
SpecDocker == DockerSpecInit /\ [][DockerNext]_vars

\* two runs of one script, one after the other
SpecTwice == Init /\ [][TwiceNext]_vars

GenSpecInit ==
    SchedIdle /\ GuardIdle /\ DockerIdle /\ GenInit /\ ParseIdle
        /\ ImportIdle
SpecGen == GenSpecInit /\ [][GenNext]_vars

ParseSpecInit ==
    SchedIdle /\ GuardIdle /\ DockerIdle /\ GenIdle /\ ParseInit
        /\ ImportIdle
SpecParse == ParseSpecInit /\ [][ParseNext]_vars

ImportSpecInit ==
    SchedIdle /\ GuardIdle /\ DockerIdle /\ GenIdle /\ ParseIdle
        /\ ImportInit
SpecImport == ImportSpecInit /\ [][ImportNext]_vars

(***************************************************************************)
(* Vocabulary of the scheduling claims.                                    *)
(***************************************************************************)
RECURSIVE Flatten(_)
Flatten(ss) == IF ss = <<>> THEN <<>> ELSE Head(ss) \o Flatten(Tail(ss))

\* the units called so far, in call order
Invoked == Flatten(func_rounds)
\* the units whose call returned and whose result was merged
Merged == {u \in Range(Invoked) : u \notin Range(funcnames)}
Requires(u) == Range(fnames_req_prov_dict[u].requires)
Provides(u) == Range(fnames_req_prov_dict[u].provides)
CallerKnown == DOMAIN features_already_known
\* all_required - (known \cup all_provided)
Unresolvable ==
    (AllRequired(fnames_req_prov_dict) \ CallerKnown)
        \ AllProvided(fnames_req_prov_dict)
\* B needs a name that only units can give it and that A provides
DependsOn(B, A) == (Requires(B) \ CallerKnown) \cap Provides(A) # {}
RECURSIVE ReachableFrom(_, _)
ReachableFrom(S, n) ==
    IF n = 0 THEN S
    ELSE ReachableFrom(
             S \cup {A \in DOMAIN fnames_req_prov_dict :
                        \E B \in S : DependsOn(B, A)}, n - 1)
Acyclic ==
    \A u \in DOMAIN fnames_req_prov_dict :
        u \notin ReachableFrom(
                     {A \in DOMAIN fnames_req_prov_dict : DependsOn(u, A)},
                     Len(UnitSeq))
UnitErrors == {"UnitError", "MissingRequiredParameterError",
               "MissingRequiredReturnKeyError"}

(***************************************************************************)
(* C1: every unit that has been called had, at the moment of its call, each *)
(* of its required names that the caller does not know provided by a unit  *)
(* called before it, whose call had returned and whose output was merged.  *)
(***************************************************************************)
C1_RequiresMergedBeforeCall ==
    \A k \in 1..Len(Invoked) :
        \A n \in Requires(Invoked[k]) \ CallerKnown :
            /\ n \in DOMAIN all_extracted_features
            /\ \E j \in 1..(k - 1) :
                  /\ n \in Provides(Invoked[j])
                  /\ Invoked[j] \in Merged

C1_Witness ==
    /\ pc = "done"
    /\ \E k \in 1..Len(Invoked) : Requires(Invoked[k]) \ CallerKnown # {}

(***************************************************************************)
(* C2: the mutual cycle A (requires y, provides x), B (requires x,         *)
(* provides y), x and y not caller-known, ends the run in a failure: once a *)
(* round has executed no unit, no further round is started.                *)
(***************************************************************************)
MutualCycle ==
    /\ DOMAIN fnames_req_prov_dict = {"A", "B"}
    /\ fnames_req_prov_dict["A"] = [requires |-> <<"y">>, provides |-> <<"x">>]
    /\ fnames_req_prov_dict["B"] = [requires |-> <<"x">>, provides |-> <<"y">>]
    /\ CallerKnown \cap {"x", "y"} = {}

C2_CycleEndsInStallError ==
    MutualCycle =>
        ~(pc = "for" /\ i >= 1 /\ func_rounds[i] = <<>> /\ funcnames # <<>>)

(***************************************************************************)
(* C3 as stated: whenever no required name is unresolvable, the run        *)
(* terminates with no unit pending (a run that a raising unit call ended   *)
(* is not held against the scheduler).                                     *)
(***************************************************************************)
RunEnds ==
    \/ pc = "done" /\ funcnames = <<>>
    \/ pc = "error" /\ err.kind \in UnitErrors

C4_ValidationBeforeScheduling ==
    (entry = "execute_functions_in_order" /\ Unresolvable # {}) =>
        (pc = "error" /\ err.kind = "Exception" /\ func_rounds = <<>>)

(***************************************************************************)
(* C5 as stated: the validation error lists every unresolvable name.       *)
(***************************************************************************)
C5_ErrorListsAll ==
    (pc = "error" /\ err.kind = "Exception") => {err.value} = Unresolvable

(***************************************************************************)
(* C5 amended: the validation error names one unresolvable name.           *)
(***************************************************************************)
C5_ErrorNamesOne ==
    (pc = "error" /\ err.kind = "Exception") => err.value \in Unresolvable

C5_Witness ==
    /\ pc = "error" /\ err.kind = "Exception"
    /\ Cardinality(Unresolvable) >= 2

(***************************************************************************)
(* C6 as stated: the result of a successful run maps every caller-known    *)
(* name to the caller's value.                                             *)
(***************************************************************************)
C6_ResultKeepsCallerValues ==
    pc = "done" =>
        \A n \in CallerKnown :
            /\ n \in DOMAIN all_extracted_features
            /\ all_extracted_features[n] = features_already_known[n]

(***************************************************************************)
(* C6 amended: a unit called with a caller-known name receives the         *)
(* caller's value for it, also when an executed unit provided that name;   *)
(* the result of a successful run holds exactly the names the units        *)
(* provide, each with a value a unit wrote.                                *)
(***************************************************************************)
C6_CallerValueInArguments ==
    /\ \A n \in DOMAIN arguments \cap CallerKnown :
           arguments[n] = features_already_known[n]
    /\ pc = "done" =>
           /\ DOMAIN all_extracted_features = AllProvided(fnames_req_prov_dict)
           /\ \A n \in DOMAIN all_extracted_features :
                  \E u \in DOMAIN fnames_req_prov_dict :
                      /\ n \in Provides(u)
                      /\ all_extracted_features[n] \div ValBase = UnitNo(u)

C6_Witness ==
    /\ pc = "done"
    /\ "x" \in CallerKnown
    /\ "x" \in DOMAIN arguments
    /\ "x" \in DOMAIN all_extracted_features
    /\ all_extracted_features["x"] # features_already_known["x"]

(***************************************************************************)
(* C7 as stated: a name, once written by an executed unit, keeps its value *)
(* for the rest of the run.                                                *)
(***************************************************************************)
C7_NeverReassigned ==
    [][\A n \in DOMAIN all_extracted_features :
          /\ n \in DOMAIN all_extracted_features'
          /\ all_extracted_features'[n] = all_extracted_features[n]]_vars

(***************************************************************************)
(* C7 amended: the accumulated names only grow, and the value held for a   *)
(* name is the one written by the last executed unit that provides it.     *)
(***************************************************************************)
LastWriter(n) ==
    LET ks == {k \in 1..Len(Invoked) :
                  Invoked[k] \in Merged /\ n \in Provides(Invoked[k])}
    IN Invoked[CHOOSE k \in ks : \A j \in ks : j <= k]

C7_LastWriterWins ==
    /\ [](\A n \in DOMAIN all_extracted_features :
             all_extracted_features[n] \div ValBase = UnitNo(LastWriter(n)))
    /\ [][DOMAIN all_extracted_features
             \subseteq DOMAIN all_extracted_features']_vars

C7_Witness ==
    \E n \in DOMAIN all_extracted_features :
        Cardinality({u \in Merged : n \in Provides(u)}) >= 2

(***************************************************************************)
(* C8: a unit call whose body returns a mapping that lacks a declared key  *)
(* raises MissingRequiredReturnKeyError naming a missing declared key (the *)
(* key itself when it is the only one missing) and leaves the accumulated  *)
(* values as they were.                                                    *)
(***************************************************************************)
MissingKeys(u, d) == Provides(u) \ DOMAIN d

UnboundRequired ==
    Range(g_requires) \ BoundParams(g_params, g_args, g_kwargs)

C9_GuardRejectsUnboundRequired ==
    g_pc \in {"returned", "raised"} =>
        /\ UnboundRequired # {} =>
              /\ g_out.kind = "MissingRequiredParameterError"
              /\ g_out.value \in UnboundRequired
              /\ ~g_out.called
        /\ g_out.called => UnboundRequired = {}

(***************************************************************************)
(* C10: once docker_extract_features has returned or raised, no staging    *)
(* directory created by that run exists.                                   *)
(***************************************************************************)
C10_StagingDirGoneAtExit ==
    \A r \in Runs :
        d_pc[r] \in {"returned", "raised"} =>
            \A n \in DirNames : tmp_dirs[n] # r

(***************************************************************************)
(* C11: when the isolated run failed, the exception docker_extract_features*)
(* raises is that failure, also when removing the container fails too.     *)
(***************************************************************************)
C11_OriginalFailureSurvivesCleanup ==
    \A r \in Runs :
        (d_pc[r] = "raised" /\ failure[r] # "none") =>
            pending[r] = failure[r]

(***************************************************************************)
(* C12 as stated: every failure of the isolated run to produce a result    *)
(* reaches the caller as an IsolatedExecutionError.                        *)
(***************************************************************************)
C12_SurfacesIsolatedExecutionError ==
    \A r \in Runs :
        (d_pc[r] \in {"returned", "raised"} /\ failure[r] # "none") =>
            (d_pc[r] = "raised" /\ pending[r] = "IsolatedExecutionError")

(***************************************************************************)
(* C12 amended: every failure of the isolated run to produce a result      *)
(* reaches the caller as an exception, never as a returned value: the      *)
(* exception of the failing step itself, or the one of remove_container    *)
(* when that fails as well.                                                *)
(***************************************************************************)
C12_SurfacesRawException ==
    \A r \in Runs :
        (d_pc[r] \in {"returned", "raised"} /\ failure[r] # "none") =>
            /\ d_pc[r] = "raised"
            /\ pending[r] \in {failure[r], "CleanupError"}
            /\ ~results_dict[r]

C12_Witness ==
    \E r \in Runs :
        /\ d_pc[r] = "raised"
        /\ failure[r] = "ResultError"
        /\ pending[r] = "ResultError"

(***************************************************************************)
(* C13: the known values a generate_custom_features call hands to          *)
(* execution are built from that call's own arguments only, also when the  *)
(* call omits features_already_known.                                      *)
(***************************************************************************)
C13_UsesOwnArguments ==
    last_call.fn = "generate_custom_features" =>
        used = FillKnown(last_call.features_already_known,
                         last_call.t, last_call.m, last_call.e)

(***************************************************************************)
(* C15: on the host the script runs isolated iff an image is available and *)
(* MLTSP_NO_DOCKER is not "1", runs in-process only with the flag, is      *)
(* rejected without image and flag, and one of the three always happens.   *)
(***************************************************************************)
C15_HostPolicy ==
    (last_call.fn # "none" /\ ~last_call.env.in_docker) =>
        LET avail == last_call.env.first_avail
            flag == last_call.env.getenv = "1"
        IN  /\ outcome \in {"isolated", "in_process", "rejected"}
            /\ (outcome = "isolated") <=> (avail /\ ~flag)
            /\ (outcome = "in_process") => flag
            /\ (~avail /\ ~flag) => (outcome = "rejected")

Declarations(lines) ==
    {k \in 0..(Len(lines) - 2) : IsDeclaration(lines, k)}

DuplicateUnitName(lines) ==
    \E j, k \in Declarations(lines) :
        j # k /\ lines[j + 2].funcname = lines[k + 2].funcname

(***************************************************************************)
(* C16: parse_for_req_prov_params does not return a declaration table for  *)
(* a script that declares the same unit name twice.                        *)
(***************************************************************************)
C16_DuplicateNameRejected ==
    DuplicateUnitName(all_lines) => p_pc # "returned"

(***************************************************************************)
(* C17: when a round ends, no unit is left pending that was runnable when  *)
(* the round began (none of its required names outstanding then).          *)
(***************************************************************************)
C17_RunnableExecutedInRound ==
    (pc = "for" /\ idx > Len(funcnames)) =>
        \A u \in Range(funcnames) :
            Blocked(round_start_copy, fnames_req_prov_dict[u].requires)

\* the units executed in rounds before round r (r: position in func_rounds)
ExecutedBefore(r) ==
    UNION {Range(func_rounds[q]) : q \in 1..(r - 1)}

(***************************************************************************)
(* C18: units executed in the same round are independent, no unit requires *)
(* a name that became available through a unit of its own round.           *)
(***************************************************************************)
C18_SameRoundIndependent ==
    \A r \in DOMAIN func_rounds :
        \A u, v \in Range(func_rounds[r]) :
            u # v =>
                \A n \in (Requires(u) \ CallerKnown) \cap Provides(v) :
                    \E w \in ExecutedBefore(r) : n \in Provides(w)

\* the units whose invocation returned: all invoked ones, but for the last
\* one when its invocation raised
Returned ==
    IF err.kind \in UnitErrors
    THEN {Invoked[k] : k \in 1..(Len(Invoked) - 1)}
    ELSE Range(Invoked)

(***************************************************************************)
(* C19: no unit is invoked twice in a run; a run that returns has invoked  *)
(* every declared unit; the units still pending are the declared units     *)
(* whose invocation has not returned.                                      *)
(***************************************************************************)
C19_InvokedOnce ==
    /\ \A j, k \in DOMAIN Invoked : j # k => Invoked[j] # Invoked[k]
    /\ pc = "done" => Range(Invoked) = DOMAIN fnames_req_prov_dict
    /\ (pc \in {"while", "for", "done"} \/ err.kind \in UnitErrors) =>
           /\ Range(funcnames) = DOMAIN fnames_req_prov_dict \ Returned
           /\ Len(funcnames) = Cardinality(Range(funcnames))

C19_Witness ==
    /\ pc = "done"
    /\ Len(Invoked) = Len(UnitSeq)
    /\ Len(func_rounds) > 1

(***************************************************************************)
(* C20: once the invocation of a unit has raised, the run is over: the     *)
(* scheduler is in its error state and no unit is invoked any more, the    *)
(* failing one included.                                                   *)
(***************************************************************************)
C20_ErrorsTerminal ==
    /\ [](err.kind \in UnitErrors => pc = "error")
    /\ [][err.kind \in UnitErrors =>
              (func_rounds' = func_rounds /\ err' = err)]_vars

C20_Witness ==
    /\ pc = "error"
    /\ err.kind \in UnitErrors
    /\ Len(Invoked) > 1
    /\ Len(funcnames) > 1

(***************************************************************************)
(* C21: with no unresolvable name and no dependency cycle, every round     *)
(* that runs to its end has executed at least one unit, and a run over N   *)
(* units never starts more than N rounds.                                  *)
(***************************************************************************)
C21_ProgressEveryRound ==
    (Unresolvable = {} /\ Acyclic) =>
        /\ (pc = "for" /\ idx > Len(funcnames)) =>
               /\ Len(func_rounds[i + 1]) >= 1
               /\ Range(func_rounds[i + 1]) \cap Range(funcnames) = {}
        /\ Len(func_rounds) <= Cardinality(DOMAIN fnames_req_prov_dict)
        /\ pc = "done" => i <= Cardinality(DOMAIN fnames_req_prov_dict)

C21_Witness ==
    /\ Unresolvable = {} /\ Acyclic
    /\ pc = "done"
    /\ i = Len(UnitSeq)
    /\ \A r \in DOMAIN func_rounds : Len(func_rounds[r]) = 1
    /\ DependsOn("A", "B") /\ DependsOn("B", "C")

(***************************************************************************)
(* C22: whatever a step of an isolated run deletes belongs to that run: a  *)
(* staging directory is deleted only by the cleanup of the run that made   *)
(* it, a container only by the run that created it, and no file outside    *)
(* the run's staging directory is deleted.                                 *)
(***************************************************************************)
C22_CleanupDeletesOwnOnly ==
    [][/\ \A n \in DirNames :
              (tmp_dirs[n] # 0 /\ tmp_dirs'[n] = 0) =>
                  /\ d_pc[tmp_dirs[n]] = "remove_tmp_files"
                  /\ path_to_tmp_dir[tmp_dirs[n]] = n
       /\ \A r \in containers \ containers' :
              d_pc[r] = "remove_container"
       /\ tmp_custom_feats \subseteq tmp_custom_feats']_vars

(***************************************************************************)
(* C23: when call_custom_functions has finished, by returning or by        *)
(* raising, sys.stdout is the stream that was installed before the call.   *)
(***************************************************************************)
C23_StdoutRestoredOnExit ==
    pc \in {"done", "error"} => stdout = "orig"

(***************************************************************************)
(* C24: the unit bodies a run with a script_fpath calls are those of the   *)
(* script at script_fpath, never those of another custom_feature_defs      *)
(* module.                                                                 *)
(***************************************************************************)
C24_BodiesFromScriptFpath ==
    (invoked_from # "none" /\ script_fpath # "None") =>
        invoked_from = script_fpath

====
